---- MODULE Spec2Model ----
(***************************************************************************)
(* Model of src/w3_login/app.py: a Flask front controller relaying the     *)
(* OAuth2 authorization-code flow to an external identity provider.        *)
(*                                                                         *)
(* The state is the browser session (a dict), the handlers are operators   *)
(* from (request, session, provider response) to (session, response,       *)
(* provider calls), and one action per route applies its handler.          *)
(***************************************************************************)
EXTENDS Integers, Sequences, FiniteSets, TLC

VARIABLES
  session,    \* the browser session: a dict (function) from keys to values
  req,        \* the last request handled: [route, code]
  pre,        \* the session as that request found it
  presp,      \* the provider response that request received (NoResponse if it made no call)
  out,        \* the HTTP response of that request
  calls,      \* the provider calls that request made, in order
  exchanged,  \* history: a code exchange succeeded since the session was fresh / logged out
  grant,      \* history: the provider response the session's tokens were last taken from
  inflight,   \* overlapping requests: slot -> request in progress (or Idle)
  finished,   \* overlapping requests: the requests completed so far, in completion order
  tick        \* overlapping requests: event counter (orders begin/end events)

vars == <<session, req, pre, presp, out, calls, exchanged, grant, inflight, finished, tick>>

-----------------------------------------------------------------------------
(* Bounds of the model *)

NumTokens == 2
MaxRequests == 3

-----------------------------------------------------------------------------
(* Program constants *)

CLIENT_ID == "airview_login"
CLIENT_SECRET == "airview_admin"
USERINFO_URL == "https://uniportal.huawei.com/saaslogin1/oauth2/userinfo"
ACCESS_TOKEN_URL == "https://uniportal.huawei.com/saaslogin1/oauth2/accesstoken"
REFRESH_TOKEN_URL == "https://uniportal.huawei.com/saaslogin1/oauth2/refreshtoken"
AUTHORIZE_URL == "https://uniportal.huawei.com/saaslogin1/oauth2/authorize"
SCOPE == "base.profile"
REDIRECT_URI == "https://airview.rnd.huawei.com/authorize"
LOGOUT_URL == "https://uniportal.huawei.com/saaslogin1/oauth2/logout"

-----------------------------------------------------------------------------
(* Python values and dicts *)

\* Python's None / JSON null
None == "<None>"

TokenNames == <<"t1", "t2", "t3", "t4">>
\* opaque non-empty token strings the provider may issue
Tokens == {TokenNames[i] : i \in 1..NumTokens}
\* what a token field of a JSON body may hold: null, the empty string, a token
Values == {None, ""} \cup Tokens
\* the code query parameter: absent, empty, or a code
Codes == {None, "", "c1"}
Statuses == {200, 400}

EmptyDict == [k \in {} |-> None]

\* dict.get(k): None when the key is missing
Get(d, k) == IF k \in DOMAIN d THEN d[k] ELSE None

\* d[k] = v
Set(d, k, v) == [x \in (DOMAIN d) \cup {k} |-> IF x = k THEN v ELSE d[x]]

Truthy_EmptyIsTrue(v) == v # None

\* Python truthiness of None / str, as used by `if not x`
Truthy(v) == v # None /\ v # ""

TokenKeys == {"access_token", "refresh_token"}
JsonBodies == UNION {[K -> Values] : K \in SUBSET TokenKeys}

\* what a provider endpoint may answer: a status and a body that is a JSON
\* object or not JSON at all
Responses ==
  {[status |-> s, is_json |-> TRUE, body |-> b] : s \in Statuses, b \in JsonBodies}
  \cup {[status |-> s, is_json |-> FALSE, body |-> EmptyDict] : s \in Statuses}

NoResponse == [status |-> 0, is_json |-> FALSE, body |-> EmptyDict]

-----------------------------------------------------------------------------
(* HTTP responses the handlers build *)

Redirect(url, query) == [status |-> 302, kind |-> "redirect", url |-> url, query |-> query]

Template(name) == [status |-> 200, kind |-> "template", template |-> name]

ErrorText_Ok(prefix, detail) == [status |-> 200, kind |-> "text", prefix |-> prefix, detail |-> detail]

\* return f"...: {detail}", 400
ErrorText(prefix, detail) == [status |-> 400, kind |-> "text", prefix |-> prefix, detail |-> detail]

\* an exception escaping the handler (resp.json() on a body that is not JSON)
ServerError == [status |-> 500, kind |-> "error"]

\* render_template('refresh_result.html', message=msg, success=success)
RefreshResult(success, detail) ==
  [status |-> 200, kind |-> "template", template |-> "refresh_result.html",
   success |-> success, detail |-> detail]

\* what a handler leaves behind: the session, whether it was written to, the
\* provider calls made, and the HTTP response
Result(sess, modified, made, response) ==
  [session |-> sess, modified |-> modified, calls |-> made, out |-> response]

Call(url, payload) == [url |-> url, payload |-> payload]

-----------------------------------------------------------------------------
(* The handlers *)

PageTemplates ==
  [r \in {"index", "login", "welcome", "index_html"} |->
     IF r \in {"index", "login"} THEN "login.html" ELSE "index.html"]

\* index, login, welcome, index_html: render a page
page(route, sess) == Result(sess, FALSE, <<>>, Template(PageTemplates[route]))

logout_KeepSession(sess) ==
  Result(sess, TRUE, <<>>,
         Redirect(LOGOUT_URL, [clientId |-> CLIENT_ID, redirect |-> "/login"]))

logout(sess) ==
  Result(EmptyDict, TRUE, <<>>,
         Redirect(LOGOUT_URL, [clientId |-> CLIENT_ID, redirect |-> "/login"]))

StoreTokens_AccessOnly(sess, data) == Set(sess, "access_token", data["access_token"])

StoreTokens_RefreshKept(sess, data) ==
  Set(Set(sess, "access_token", data["access_token"]),
      "refresh_token",
      IF "refresh_token" \in DOMAIN sess THEN sess["refresh_token"]
      ELSE Get(data, "refresh_token"))

\* session['access_token'] = data['access_token']
\* session['refresh_token'] = data.get('refresh_token')
StoreTokens(sess, data) ==
  Set(Set(sess, "access_token", data["access_token"]),
      "refresh_token", Get(data, "refresh_token"))

AuthorizeRedirect_DropsTokens(sess) ==
  Result(Set(EmptyDict, "_state_w3", "state"), TRUE, <<>>,
         Redirect(AUTHORIZE_URL,
                  [response_type |-> "code", client_id |-> CLIENT_ID,
                   redirect_uri |-> REDIRECT_URI, scope |-> SCOPE]))

\* oauth.w3.authorize_redirect(REDIRECT_URI): keeps the state of the pending
\* authorization in the session and redirects to the provider
AuthorizeRedirect(sess) ==
  Result(Set(sess, "_state_w3", "state"), TRUE, <<>>,
         Redirect(AUTHORIZE_URL,
                  [response_type |-> "code", client_id |-> CLIENT_ID,
                   redirect_uri |-> REDIRECT_URI, scope |-> SCOPE]))

TokenPayload(code) ==
  [client_id |-> CLIENT_ID, client_secret |-> CLIENT_SECRET,
   redirect_uri |-> REDIRECT_URI, grant_type |-> "authorization_code", code |-> code]

authorize(code, sess, resp) ==
  IF ~Truthy(code) THEN AuthorizeRedirect(sess)
  ELSE LET made == <<Call(ACCESS_TOKEN_URL, TokenPayload(code))>> IN
    IF resp.status # 200 THEN Result(sess, FALSE, made, ErrorText("token", resp))
    ELSE IF ~resp.is_json THEN Result(sess, FALSE, made, ServerError)
    ELSE IF "access_token" \notin DOMAIN resp.body
      THEN Result(sess, FALSE, made, ErrorText("token", resp))
    ELSE Result(StoreTokens(sess, resp.body), TRUE, made, Redirect("/welcome", EmptyDict))

UserinfoPayload_Refresh(sess) ==
  [client_id |-> CLIENT_ID, access_token |-> Get(sess, "refresh_token"), scope |-> SCOPE]

UserinfoPayload(sess) ==
  [client_id |-> CLIENT_ID, access_token |-> Get(sess, "access_token"), scope |-> SCOPE]

profile(sess, resp) ==
  IF ~Truthy(Get(sess, "access_token"))
    THEN Result(sess, FALSE, <<>>, Redirect("/", EmptyDict))
  ELSE LET made == <<Call(USERINFO_URL, UserinfoPayload(sess))>> IN
    IF resp.status # 200 THEN Result(sess, FALSE, made, ErrorText("userinfo", resp))
    ELSE IF ~resp.is_json THEN Result(sess, FALSE, made, ServerError)
    ELSE Result(sess, FALSE, made, Template("profile.html"))

RefreshPayload_Access(sess) ==
  [client_id |-> CLIENT_ID, grant_type |-> "refresh_token",
   refresh_token |-> Get(sess, "access_token")]

RefreshPayload(sess) ==
  [client_id |-> CLIENT_ID, grant_type |-> "refresh_token",
   refresh_token |-> Get(sess, "refresh_token")]

refresh_token(sess, resp) ==
  IF ~Truthy(Get(sess, "refresh_token"))
    THEN Result(sess, FALSE, <<>>, RefreshResult(FALSE, NoResponse))
  ELSE LET made == <<Call(REFRESH_TOKEN_URL, RefreshPayload(sess))>> IN
    IF ~resp.is_json THEN Result(sess, FALSE, made, ServerError)
    ELSE IF "access_token" \in DOMAIN resp.body
      THEN Result(StoreTokens(sess, resp.body), TRUE, made, RefreshResult(TRUE, resp))
    ELSE Result(sess, FALSE, made, RefreshResult(FALSE, resp))

PageRoutes == {"index", "login", "welcome", "index_html"}
Routes == PageRoutes \cup {"logout", "authorize", "profile", "refresh"}

\* the route table: the handler of each route
Handle(route, code, sess, resp) ==
  CASE route = "logout" -> logout(sess)
    [] route = "authorize" -> authorize(code, sess, resp)
    [] route = "profile" -> profile(sess, resp)
    [] route = "refresh" -> refresh_token(sess, resp)
    [] OTHER -> page(route, sess)

-----------------------------------------------------------------------------
(* History: what the provider granted *)

NoGrant == [via |-> "none", body |-> EmptyDict]

\* the provider accepted the code: 200 with a JSON object holding access_token
ExchangeOK(code, resp) ==
  Truthy(code) /\ resp.status = 200 /\ resp.is_json /\ "access_token" \in DOMAIN resp.body

\* the provider answered a refresh request with a JSON object holding access_token
RefreshOK(sess, resp) ==
  Truthy(Get(sess, "refresh_token")) /\ resp.is_json /\ "access_token" \in DOMAIN resp.body

NextExchanged(route, code, resp, old) ==
  IF route = "logout" THEN FALSE
  ELSE IF route = "authorize" /\ ExchangeOK(code, resp) THEN TRUE
  ELSE old

NextGrant(route, code, sess, resp, old) ==
  IF route = "logout" THEN NoGrant
  ELSE IF route = "authorize" /\ ExchangeOK(code, resp) THEN [via |-> "authorize", body |-> resp.body]
  ELSE IF route = "refresh" /\ RefreshOK(sess, resp) THEN [via |-> "refresh", body |-> resp.body]
  ELSE old

-----------------------------------------------------------------------------
(* Requests handled one at a time *)

Idle == [route |-> "idle"]

Init ==
  /\ session = EmptyDict
  /\ req = [route |-> "none", code |-> None]
  /\ pre = EmptyDict
  /\ presp = NoResponse
  /\ out = [status |-> 0, kind |-> "none"]
  /\ calls = <<>>
  /\ exchanged = FALSE
  /\ grant = NoGrant
  /\ inflight = [s \in 1..2 |-> Idle]
  /\ finished = <<>>
  /\ tick = 0

\* one whole request: the session is opened, the handler runs against the
\* provider's answer, the session is saved
Serve(route, code, resp) ==
  LET res == Handle(route, code, session, resp) IN
  /\ session' = IF res.modified THEN res.session ELSE session
  /\ req' = [route |-> route, code |-> code]
  /\ pre' = session
  /\ presp' = IF res.calls = <<>> THEN NoResponse ELSE resp
  /\ out' = res.out
  /\ calls' = res.calls
  /\ exchanged' = NextExchanged(route, code, resp, exchanged)
  /\ grant' = NextGrant(route, code, session, resp, grant)
  /\ UNCHANGED <<inflight, finished, tick>>

Index ==
  /\ Serve("index", None, NoResponse)

Login ==
  /\ Serve("login", None, NoResponse)

Welcome ==
  /\ Serve("welcome", None, NoResponse)

IndexHtml ==
  /\ Serve("index_html", None, NoResponse)

Logout ==
  /\ Serve("logout", None, NoResponse)

Authorize ==
  \E code \in Codes, resp \in Responses :
    /\ Serve("authorize", code, resp)

Profile ==
  \E resp \in Responses :
    /\ Serve("profile", None, resp)

RefreshToken ==
  \E resp \in Responses :
    /\ Serve("refresh", None, resp)

Next ==
  \/ Index
  \/ Login
  \/ Welcome
  \/ IndexHtml
  \/ Logout
  \/ Authorize
  \/ Profile
  \/ RefreshToken

Spec == Init /\ [][Next]_vars

-----------------------------------------------------------------------------
(* Requests of one browser session that overlap: each request opens the     *)
(* session when it begins (its own copy of the session cookie), and saves   *)
(* its copy when it ends if the handler wrote to it.                        *)

Slots == 1..2

Busy == {s \in Slots : inflight[s] # Idle}

\* a request arrives: the session is opened
Begin(slot, route, code) ==
  /\ inflight[slot] = Idle
  /\ Len(finished) + Cardinality(Busy) < MaxRequests
  /\ inflight' = [inflight EXCEPT ![slot] =
                    [route |-> route, code |-> code, snap |-> session, start |-> tick + 1]]
  /\ tick' = tick + 1
  /\ UNCHANGED <<session, req, pre, presp, out, calls, exchanged, grant, finished>>

\* the handler runs on the request's copy of the session against the
\* provider's answer, and the response goes out: the session is saved if modified
Finish(slot, resp) ==
  /\ inflight[slot] # Idle
  /\ LET r == inflight[slot]
         res == Handle(r.route, r.code, r.snap, resp) IN
     /\ session' = IF res.modified THEN res.session ELSE session
     /\ req' = [route |-> r.route, code |-> r.code]
     /\ pre' = r.snap
     /\ presp' = IF res.calls = <<>> THEN NoResponse ELSE resp
     /\ out' = res.out
     /\ calls' = res.calls
     /\ exchanged' = NextExchanged(r.route, r.code, resp, exchanged)
     /\ grant' = NextGrant(r.route, r.code, r.snap, resp, grant)
     /\ finished' = Append(finished, [route |-> r.route, code |-> r.code,
                                      start |-> r.start, end |-> tick + 1])
  /\ inflight' = [inflight EXCEPT ![slot] = Idle]
  /\ tick' = tick + 1

BeginRequest ==
  \E slot \in Slots, route \in Routes :
    \E code \in (IF route = "authorize" THEN Codes ELSE {None}) :
      /\ Begin(slot, route, code)

\* the answers of a provider that follows the protocol: 200 with both tokens,
\* or an error without any
ProtocolResponses ==
  {r \in Responses :
     /\ r.is_json
     /\ IF r.status = 200
          THEN DOMAIN r.body = TokenKeys /\ \A k \in TokenKeys : r.body[k] \in Tokens
          ELSE r.body = EmptyDict}

FinishRequest ==
  \E slot \in Slots :
    \E resp \in (IF inflight[slot].route \in {"authorize", "profile", "refresh"}
                 THEN ProtocolResponses ELSE {NoResponse}) :
      /\ Finish(slot, resp)

NextOverlap ==
  \/ BeginRequest
  \/ FinishRequest

SpecOverlap == Init /\ [][NextOverlap]_vars

-----------------------------------------------------------------------------
(* Vocabulary of the properties *)

\* a usable token: neither missing / null nor the empty string
NonEmpty(v) == v \notin {None, ""}

Has(d, k) == k \in DOMAIN d

SameTokens(a, b) ==
  /\ Has(a, "access_token") = Has(b, "access_token")
  /\ Has(a, "refresh_token") = Has(b, "refresh_token")
  /\ Get(a, "access_token") = Get(b, "access_token")
  /\ Get(a, "refresh_token") = Get(b, "refresh_token")

NoTokens(d) == ~Has(d, "access_token") /\ ~Has(d, "refresh_token")

Callback == req.route = "authorize" /\ NonEmpty(req.code)

BodyHasAccessToken == presp.is_json /\ Has(presp.body, "access_token")

OneCall(url) == Len(calls) = 1 /\ calls[1].url = url

RedirectTo(url) == out.kind = "redirect" /\ out.status = 302 /\ out.url = url

RefreshPage(success) ==
  /\ out.kind = "template"
  /\ out.status = 200
  /\ out.template = "refresh_result.html"
  /\ out.success = success

-----------------------------------------------------------------------------
\* C1: an /authorize request with a non-empty code calls the token endpoint
\* exactly once, with grant_type=authorization_code and that code; if the
\* answer is 200 and contains access_token, the session then holds the
\* answer's access_token and refresh_token and the response redirects to /welcome.
C1_CodeExchange ==
  Callback =>
    /\ OneCall(ACCESS_TOKEN_URL)
    /\ calls[1].payload.grant_type = "authorization_code"
    /\ calls[1].payload.code = req.code
    /\ (presp.status = 200 /\ BodyHasAccessToken) =>
         /\ Has(session, "access_token")
         /\ session["access_token"] = presp.body["access_token"]
         /\ Get(session, "refresh_token") = Get(presp.body, "refresh_token")
         /\ RedirectTo("/welcome")

C1_Witness ==
  /\ Callback
  /\ presp.status = 200 /\ BodyHasAccessToken
  /\ NonEmpty(Get(presp.body, "refresh_token"))
  /\ NonEmpty(Get(pre, "refresh_token"))
  /\ Get(pre, "refresh_token") # Get(presp.body, "refresh_token")
  /\ RedirectTo("/welcome")

-----------------------------------------------------------------------------
\* C2 as stated: every failed provider call (token endpoint non-200 or
\* without access_token, userinfo non-200, refresh endpoint error or without
\* access_token) is answered with HTTP 400.
C2_Orig_AllFailures400 ==
  ( \/ Callback /\ (presp.status # 200 \/ ~BodyHasAccessToken)
    \/ req.route = "profile" /\ calls # <<>> /\ presp.status # 200
    \/ req.route = "refresh" /\ calls # <<>> /\ (presp.status # 200 \/ ~BodyHasAccessToken) )
  => out.status = 400

\* C2 amended: a failed code exchange (non-200, or 200 with a JSON object
\* lacking access_token) and a failed userinfo call (non-200) are answered
\* with a plain-text HTTP 400; a failed refresh (JSON object without
\* access_token, whatever the status) is answered with the rendered failure
\* page, success = false, HTTP 200; a body that is not JSON where the handler
\* parses it ends in HTTP 500.
C2_FailureResponses ==
  /\ (Callback /\ (presp.status # 200 \/ (presp.is_json /\ ~Has(presp.body, "access_token"))))
       => (out.status = 400 /\ out.kind = "text" /\ out.detail = presp)
  /\ (Callback /\ presp.status = 200 /\ ~presp.is_json) => out.status = 500
  /\ (req.route = "profile" /\ calls # <<>> /\ presp.status # 200)
       => (out.status = 400 /\ out.kind = "text" /\ out.detail = presp)
  /\ (req.route = "refresh" /\ calls # <<>> /\ presp.is_json /\ ~Has(presp.body, "access_token"))
       => (RefreshPage(FALSE) /\ out.detail = presp)
  /\ (req.route = "refresh" /\ calls # <<>> /\ ~presp.is_json) => out.status = 500

C2_Witness ==
  /\ req.route = "refresh" /\ calls # <<>>
  /\ presp.status = 400 /\ presp.is_json /\ ~Has(presp.body, "access_token")
  /\ out.status = 200

-----------------------------------------------------------------------------
\* C3: /logout clears the session and redirects to the provider logout URL
\* with the configured clientId, whatever the session held; and as long as no
\* code exchange has succeeded since the session was fresh or logged out, the
\* session holds no access_token and no refresh_token, /profile redirects to
\* the index without calling userinfo, and /refresh makes no provider call.
C3_LogoutAndUnauthenticated ==
  /\ req.route = "logout" =>
       /\ session = EmptyDict
       /\ RedirectTo(LOGOUT_URL)
       /\ out.query.clientId = CLIENT_ID
       /\ calls = <<>>
  /\ ~exchanged =>
       /\ NoTokens(session)
       /\ req.route = "profile" => (calls = <<>> /\ RedirectTo("/"))
       /\ req.route = "refresh" => (calls = <<>> /\ RefreshPage(FALSE))

C3_Witness ==
  /\ req.route = "logout"
  /\ NonEmpty(Get(pre, "access_token")) /\ NonEmpty(Get(pre, "refresh_token"))
  /\ Has(pre, "_state_w3")
  /\ ~exchanged
  /\ session = EmptyDict

-----------------------------------------------------------------------------
\* C4 as stated: a /refresh with a refresh_token in the session calls the
\* refresh endpoint once with grant_type=refresh_token and that token; on
\* success both session tokens take the response's values, so the session
\* stays Authenticated and can be refreshed again.
C4_Orig_StaysRefreshable ==
  (req.route = "refresh" /\ NonEmpty(Get(pre, "refresh_token"))) =>
    /\ OneCall(REFRESH_TOKEN_URL)
    /\ calls[1].payload.grant_type = "refresh_token"
    /\ calls[1].payload.refresh_token = pre["refresh_token"]
    /\ (presp.status = 200 /\ BodyHasAccessToken) =>
         /\ Get(session, "access_token") = presp.body["access_token"]
         /\ Get(session, "refresh_token") = Get(presp.body, "refresh_token")
         /\ NonEmpty(Get(session, "access_token"))
         /\ NonEmpty(Get(session, "refresh_token"))

\* C4 amended: a /refresh with a refresh_token in the session calls the
\* refresh endpoint once with grant_type=refresh_token and that token; when
\* the response's JSON body contains access_token both session tokens take
\* the response's values (refresh_token None if the response has none), and
\* the session can be refreshed again exactly when the response carried a
\* non-empty refresh_token, and holds a usable access_token exactly when the
\* response's access_token is non-empty.
C4_RefreshOverwrites ==
  (req.route = "refresh" /\ NonEmpty(Get(pre, "refresh_token"))) =>
    /\ OneCall(REFRESH_TOKEN_URL)
    /\ calls[1].payload.grant_type = "refresh_token"
    /\ calls[1].payload.refresh_token = pre["refresh_token"]
    /\ BodyHasAccessToken =>
         /\ Has(session, "access_token") /\ Has(session, "refresh_token")
         /\ session["access_token"] = presp.body["access_token"]
         /\ session["refresh_token"] = Get(presp.body, "refresh_token")
         /\ NonEmpty(Get(session, "refresh_token")) = NonEmpty(Get(presp.body, "refresh_token"))
         /\ NonEmpty(Get(session, "access_token")) = NonEmpty(presp.body["access_token"])
         /\ RefreshPage(TRUE)

C4_Witness ==
  /\ req.route = "refresh" /\ NonEmpty(Get(pre, "refresh_token"))
  /\ BodyHasAccessToken
  /\ NonEmpty(Get(presp.body, "refresh_token"))
  /\ Get(pre, "refresh_token") # Get(pre, "access_token")
  /\ Get(pre, "refresh_token") # Get(presp.body, "refresh_token")
  /\ session["refresh_token"] = presp.body["refresh_token"]

-----------------------------------------------------------------------------
\* C5: /refresh with no refresh_token in the session (missing, null or
\* empty) renders the failure page (success = false), calls no provider
\* endpoint, and leaves the session as it was.
C5_RefreshWithoutToken ==
  (req.route = "refresh" /\ ~NonEmpty(Get(pre, "refresh_token"))) =>
    /\ calls = <<>>
    /\ RefreshPage(FALSE)
    /\ session = pre

C5_Witness ==
  /\ req.route = "refresh"
  /\ Has(pre, "refresh_token") /\ pre["refresh_token"] = ""
  /\ NonEmpty(Get(pre, "access_token"))
  /\ RefreshPage(FALSE)

-----------------------------------------------------------------------------
\* C6 as stated: /profile without access_token redirects to '/' without
\* calling userinfo; and whenever the session's tokens come from a successful
\* code exchange or refresh with no logout since, /profile calls userinfo
\* exactly once with the session's access_token instead of redirecting.
C6_Orig_AuthenticatedCallsUserinfo ==
  /\ (req.route = "profile" /\ ~Has(pre, "access_token")) =>
       (calls = <<>> /\ RedirectTo("/"))
  /\ (req.route = "profile" /\ grant.via # "none") =>
       /\ OneCall(USERINFO_URL)
       /\ calls[1].payload.access_token = Get(pre, "access_token")
       /\ out.kind # "redirect"

\* C6 amended: /profile with no usable access_token in the session (missing,
\* null or empty, also when a successful exchange or refresh stored it so)
\* redirects to '/' without calling userinfo; whenever the session holds a
\* non-empty access_token, /profile calls userinfo exactly once with it
\* instead of redirecting.
C6_ProfileGate ==
  /\ (req.route = "profile" /\ ~NonEmpty(Get(pre, "access_token"))) =>
       (calls = <<>> /\ RedirectTo("/"))
  /\ (req.route = "profile" /\ NonEmpty(Get(pre, "access_token"))) =>
       /\ OneCall(USERINFO_URL)
       /\ calls[1].payload.access_token = pre["access_token"]
       /\ calls[1].payload.client_id = CLIENT_ID
       /\ out.kind # "redirect"
  /\ req.route = "profile" => session = pre

C6_Witness ==
  /\ req.route = "profile"
  /\ grant.via = "refresh"
  /\ NonEmpty(Get(pre, "access_token"))
  /\ Get(pre, "access_token") # Get(pre, "refresh_token")
  /\ OneCall(USERINFO_URL)
  /\ out.status = 200

-----------------------------------------------------------------------------
\* C7: an /authorize request without a code (absent or empty) is answered
\* with a redirect to the provider authorize URL carrying the configured
\* client_id and redirect_uri, calls no provider endpoint, and leaves the
\* session's access_token and refresh_token unchanged.
C7_AuthorizeWithoutCode ==
  (req.route = "authorize" /\ req.code \in {None, ""}) =>
    /\ RedirectTo(AUTHORIZE_URL)
    /\ out.query.client_id = CLIENT_ID
    /\ out.query.redirect_uri = REDIRECT_URI
    /\ calls = <<>>
    /\ SameTokens(session, pre)

C7_Witness ==
  /\ req.route = "authorize" /\ req.code = ""
  /\ NonEmpty(Get(pre, "access_token")) /\ NonEmpty(Get(pre, "refresh_token"))
  /\ ~Has(pre, "_state_w3")
  /\ RedirectTo(AUTHORIZE_URL)

-----------------------------------------------------------------------------
\* C8: a request whose provider call fails (non-200, or for the token and
\* refresh endpoints no access_token) leaves the session's access_token and
\* refresh_token as they were; /profile never modifies the session.
C8_FailureKeepsSession ==
  /\ ( \/ Callback /\ (presp.status # 200 \/ ~BodyHasAccessToken)
       \/ req.route = "profile" /\ calls # <<>> /\ presp.status # 200
       \/ req.route = "refresh" /\ calls # <<>> /\ (presp.status # 200 \/ ~BodyHasAccessToken) )
     => SameTokens(session, pre)
  /\ req.route = "profile" => session = pre

-----------------------------------------------------------------------------
\* C9 as stated: in every reachable state, a session holding a non-empty
\* refresh_token also holds a non-empty access_token.
C9_Orig_RefreshImpliesAccess ==
  NonEmpty(Get(session, "refresh_token")) => NonEmpty(Get(session, "access_token"))

\* C9 amended: the two tokens are only ever written together and cleared
\* together: the session has a refresh_token entry exactly when it has an
\* access_token entry, and then both are the values of one and the same
\* provider response, the last successful code exchange or refresh since the
\* last logout (the access_token is empty or null if the provider sent it so).
C9_TokensWrittenTogether ==
  /\ Has(session, "refresh_token") = Has(session, "access_token")
  /\ Has(session, "access_token") = (grant.via # "none")
  /\ grant.via # "none" =>
       /\ session["access_token"] = grant.body["access_token"]
       /\ session["refresh_token"] = Get(grant.body, "refresh_token")

C9_Witness ==
  /\ grant.via = "refresh"
  /\ req.route = "refresh"
  /\ NonEmpty(Get(pre, "refresh_token")) /\ NonEmpty(Get(session, "refresh_token"))
  /\ pre["refresh_token"] # session["refresh_token"]
  /\ session["refresh_token"] = grant.body["refresh_token"]

-----------------------------------------------------------------------------
\* C10: when a /logout and a /refresh (or an /authorize callback) of the same
\* session overlap, then once both have finished and /logout was the last of
\* the two to be issued or to complete, the session holds no access_token and
\* no refresh_token.
C10_LogoutWinsOverlap ==
  LET n == Len(finished) IN
  (Busy = {} /\ n >= 2) =>
    LET a == finished[n - 1]
        b == finished[n]
        overlap == b.start < a.end
        alone == \A i \in 1..(n - 2) : finished[i].end < a.start /\ finished[i].end < b.start
        grants(x) == x.route = "refresh" \/ (x.route = "authorize" /\ NonEmpty(x.code))
    IN /\ (overlap /\ alone /\ a.route = "logout" /\ grants(b) /\ a.start > b.start)
            => NoTokens(session)
       /\ (overlap /\ alone /\ b.route = "logout" /\ grants(a))
            => NoTokens(session)

====
